---- MODULE Spec2Model ----
(***************************************************************************)
(* Inference pipeline of FreeYOLO (models/yolo_free/yolo_free.py):         *)
(* per-level score filtering, box decoding, aggregation, multiclass NMS    *)
(* and normalisation, and the no-decode pass-through.                      *)
(*                                                                         *)
(* Numbers.  Probabilities, scores and thresholds are fixed-point          *)
(* hundredths (0.5 is 50).  Pixel coordinates are hundredths of a pixel.  A *)
(* normalised output coordinate is an exact fraction [num, den].  Logits   *)
(* and regression values are small integers.  Indices are 0-based as in    *)
(* the source; TLA+ sequences are 1-based, so element i of a tensor is     *)
(* t[i + 1].                                                               *)
(***************************************************************************)
EXTENDS Integers, Sequences, FiniteSets, TLC

\* Number of pyramid levels the network emits (3 in the source; scaled down).
MaxLevels == 2

\* Largest number H * W * C of (cell, class) pairs of one level.
MaxPairs == 4

\* ----------------------------------------------------------------- inputs

\* Pairs (self.topk, self.nms_thresh) tried.  topk: negative, below the
\* level size, the default 1000.  nms_thresh: the default 0.6, an invalid 1.5.
TopkNmsPairs == {<<-1, 60>>, <<1, 60>>, <<1000, 60>>, <<1000, 150>>}

\* Value of self.conf_thresh tried: 0.5, which sqrt(0.5 * 0.5) meets exactly.
ConfThreshs == {50}

\* Values of self.num_classes tried.
NumClassesSet == {1, 2}

\* cfg['stride'] lists tried: the prefixes of [8, 16, 32].
StrideLists == {[i \in 1..n |-> 8 * (2 ^ (i - 1))] : n \in 1..MaxLevels}

\* Feature-map sizes [H, W] of the finest level; coarser levels are 1 x 1.
Shapes == {<<1, 1>>, <<1, 2>>, <<2, 1>>, <<2, 2>>}

\* Logits the heads may emit.
ObjLogits == {0}
ClsLogits == {0, 2}

\* Regression 4-vectors (tx, ty, tw, th) the heads may emit.
Regs == {<<0, 0, 0, 0>>, <<1, 0, 0, 0>>}

\* The tensors (objectness [M], class [M, C], regression [M, 4]) the heads of
\* one level may emit: every combination when the level has at most two
\* (cell, class) pairs; on a larger level every cell but one predicts
\* background (logits 0, regression 0).
HeadOutputs(M, C) ==
    LET all == [obj : [1..M -> ObjLogits],
                cls : [1..M -> [1..C -> ClsLogits]],
                reg : [1..M -> Regs]]
        background(t, k) == /\ t.obj[k] = 0
                            /\ \A c \in 1..C : t.cls[k][c] = 0
                            /\ t.reg[k] = <<0, 0, 0, 0>>
    IN  IF M * C <= 2 THEN all
        ELSE {t \in all : \E hot \in 1..M : \A k \in 1..M \ {hot} : background(t, k)}

\* ------------------------------------------------------------- arithmetic

Min(a, b) == IF a <= b THEN a ELSE b
Max(a, b) == IF a >= b THEN a ELSE b

\* torch.sigmoid, in hundredths.
Sigmoid(x) ==
    CASE x = -2 -> 12
      [] x = -1 -> 27
      [] x = 0 -> 50
      [] x = 1 -> 73
      [] x = 2 -> 88

\* torch.exp, in hundredths.
Exp(x) ==
    CASE x = -1 -> 37
      [] x = 0 -> 100
      [] x = 1 -> 272

\* The largest r in lo..hi with r * r <= n, by bisection.
RECURSIVE SqrtBetween(_, _, _)
SqrtBetween(n, lo, hi) ==
    IF lo = hi THEN lo
    ELSE LET mid == (lo + hi + 1) \div 2
         IN  IF mid * mid <= n THEN SqrtBetween(n, mid, hi)
             ELSE SqrtBetween(n, lo, mid - 1)

\* torch.sqrt of a product of two hundredths, in hundredths (rounded down).
Sqrt(n) == SqrtBetween(n, 0, 100)

\* Python slice s[:k]: a negative k counts from the end.
SliceTo(s, k) ==
    IF k >= 0 THEN SubSeq(s, 1, Min(k, Len(s)))
    ELSE SubSeq(s, 1, Max(0, Len(s) + k))

\* Concatenation of a sequence of sequences (torch.cat along dim 0).
RECURSIVE Cat(_)
Cat(ss) == IF ss = <<>> THEN <<>> ELSE Head(ss) \o Cat(Tail(ss))


\* ------------------------------------------------------------------ state

VARIABLES
    num_classes,    \* self.num_classes
    conf_thresh,    \* self.conf_thresh, hundredths
    nms_thresh,     \* self.nms_thresh, hundredths
    topk,           \* self.topk
    no_decode,      \* self.no_decode
    stride,         \* self.stride = cfg['stride']
    fmp_sizes,      \* [H, W] of each map of pyramid_feats
    img_h, img_w,   \* x.shape[2:]
    pc,             \* position in inference_single_image / post_process
    level,          \* loop variable of the running loop
    all_obj_preds, all_cls_preds, all_reg_preds, all_anchors,
    all_idxs,       \* per level: topk_idxs after the confidence filter
    all_scores, all_labels, all_bboxes,
    cat_scores, cat_labels, cat_bboxes,     \* the lists handed to multiclass_nms
    scores, labels, bboxes,                 \* what multiclass_nms returned
    out_bboxes,     \* bboxes after normalisation; returned with scores, labels
    outputs         \* the rows returned in no-decode mode

config == <<num_classes, conf_thresh, nms_thresh, topk, no_decode, stride>>
input == <<fmp_sizes, img_h, img_w>>
preds == <<all_obj_preds, all_cls_preds, all_reg_preds, all_anchors>>
levelOut == <<all_idxs, all_scores, all_labels, all_bboxes>>
nmsIn == <<cat_scores, cat_labels, cat_bboxes>>
nmsOut == <<scores, labels, bboxes>>
vars == <<config, input, pc, level, preds, levelOut, nmsIn, nmsOut, out_bboxes, outputs>>

\* ---------------------------------------------------------- grid and boxes

\* Faulty variant of CellXY: the cells enumerated column by column.
CellXYColMajor(k, fmp_size) == <<k \div fmp_size[1], k % fmp_size[1]>>

\* Cell k of a [H, W] map, row-major: (x, y) = (k mod W, k div W).
CellXY(k, fmp_size) == <<k % fmp_size[2], k \div fmp_size[2]>>

\* generate_anchors: (cell + 0.5) * stride[level], one point per cell.
GenerateAnchors(lv, fmp_size) ==
    [k1 \in 1..(fmp_size[1] * fmp_size[2]) |->
        LET xy == CellXY(k1 - 1, fmp_size)
        IN  <<(2 * xy[1] + 1) * 50 * stride[lv + 1],
              (2 * xy[2] + 1) * 50 * stride[lv + 1]>>]

\* decode_boxes for one row: centre = anchor + t_xy * stride,
\* size = exp(t_wh) * stride, box = centre -/+ size / 2.
DecodeBox(anchor, reg, s) ==
    LET cx == anchor[1] + reg[1] * s * 100
        cy == anchor[2] + reg[2] * s * 100
        w == Exp(reg[3]) * s
        h == Exp(reg[4]) * s
    IN  <<cx - (w \div 2), cy - (h \div 2), cx + (w \div 2), cy + (h \div 2)>>

\* ------------------------------------------------------ per-level filtering

\* scores_i: sqrt(sigmoid(obj) * sigmoid(cls)) broadcast to [HW, C], flattened.
FusedScores(obj_pred_i, cls_pred_i) ==
    [f1 \in 1..(Len(cls_pred_i) * num_classes) |->
        LET cell == (f1 - 1) \div num_classes
            cls == (f1 - 1) % num_classes
        IN  Sqrt(Sigmoid(obj_pred_i[cell + 1]) * Sigmoid(cls_pred_i[cell + 1][cls + 1]))]

\* The index orders scores_i.sort(descending=True) may return: torch.sort is
\* not stable unless asked (stable=False), so equal scores come in any order.
RECURSIVE SortOrders(_, _)
SortOrders(sc, remaining) ==
    IF remaining = {} THEN {<<>>}
    ELSE LET tops == {f \in remaining : \A g \in remaining : sc[f + 1] >= sc[g + 1]}
         IN  UNION {{<<f>> \o s : s \in SortOrders(sc, remaining \ {f})} : f \in tops}

\* num_topk = min(self.topk, reg_pred_i.size(0))
NumTopk(reg_pred_i) == Min(topk, Len(reg_pred_i))

\* Faulty variant of Keep: >= instead of >.
KeepGe(score) == score >= conf_thresh

\* keep_idxs = topk_scores > self.conf_thresh
Keep(score) == score > conf_thresh

\* anchor_idxs = topk_idxs // num_classes ; labels = topk_idxs % num_classes
AnchorIdx(f) == f \div num_classes
Label(f) == f % num_classes

\* The indices of one level that survive top-k and the threshold, for the
\* sort order `order`.
KeptIdxs(sc, order, reg_pred_i) ==
    SelectSeq(SliceTo(order, NumTopk(reg_pred_i)), LAMBDA f : Keep(sc[f + 1]))


\* --------------------------------------------------------- multiclass NMS

\* Area of a box; a box of zero or negative extent has area 0.
Area(b) == Max(0, b[3] - b[1]) * Max(0, b[4] - b[2])

\* Area of the intersection of two boxes.
Inter(a, b) ==
    Max(0, Min(a[3], b[3]) - Max(a[1], b[1])) * Max(0, Min(a[4], b[4]) - Max(a[2], b[2]))

\* IoU(a, b) > thr (hundredths), exactly; IoU is 0 when the union is empty.
IoUAbove(a, b, thr) ==
    LET i == Inter(a, b)
        u == Area(a) + Area(b) - i
    IN  u > 0 /\ i * 100 > thr * u

\* The positions of `cands` by score descending, ties by position ascending.
RECURSIVE ByScore(_, _)
ByScore(sc, cands) ==
    IF cands = {} THEN <<>>
    ELSE LET best == CHOOSE i \in cands :
                        \A j \in cands : sc[i] > sc[j] \/ (sc[i] = sc[j] /\ i <= j)
         IN  <<best>> \o ByScore(sc, cands \ {best})

\* Greedy walk: keep the head, drop every later box overlapping it above thr.
RECURSIVE Greedy(_, _, _)
Greedy(order, bx, thr) ==
    IF order = <<>> THEN <<>>
    ELSE LET h == Head(order)
         IN  <<h>> \o Greedy(SelectSeq(Tail(order),
                                       LAMBDA j : ~IoUAbove(bx[h], bx[j], thr)),
                             bx, thr)

\* The positions multiclass_nms retains, class by class.
RECURSIVE NmsKeep(_, _, _, _, _, _)
NmsKeep(sc, lb, bx, thr, nc, c) ==
    IF c >= nc THEN <<>>
    ELSE Greedy(ByScore(sc, {i \in 1..Len(sc) : lb[i] = c}), bx, thr)
            \o NmsKeep(sc, lb, bx, thr, nc, c + 1)

\* multiclass_nms(scores, labels, bboxes, nms_thresh, num_classes, False)
MulticlassNms(sc, lb, bx, thr, nc) == NmsKeep(sc, lb, bx, thr, nc, 0)

\* Faulty variant of NmsArg: num_classes passed in the threshold's position.
NmsArgSwapped == 100 * num_classes

\* The threshold post_process hands to multiclass_nms.
NmsArg == nms_thresh

\* ------------------------------------------------------------ normalisation

\* bboxes.clip(0., 1.) on a fraction.
Clip01(q) ==
    IF q.num < 0 THEN [num |-> 0, den |-> q.den]
    ELSE IF q.num > q.den THEN [num |-> q.den, den |-> q.den]
    ELSE q

\* Faulty variant of Normalize: the clip forgotten.
NormalizeNoClip(v) == [num |-> v, den |-> 100 * Max(img_h, img_w)]

\* bboxes /= max(img_h, img_w); bboxes.clip(0., 1.), for one coordinate
\* in hundredths of a pixel.
Normalize(v) == Clip01([num |-> v, den |-> 100 * Max(img_h, img_w)])

\* ---------------------------------------------------------------- no-decode

\* Faulty variant of NoDecodeRow: the sigmoid on objectness forgotten.
NoDecodeRowRaw(reg, obj, cls) ==
    reg \o <<obj>> \o [c \in 1..Len(cls) |-> Sigmoid(cls[c])]

\* One row of cat([reg_preds, obj_preds.sigmoid(), cls_preds.sigmoid()], -1).
NoDecodeRow(reg, obj, cls) ==
    reg \o <<Sigmoid(obj)>> \o [c \in 1..Len(cls) |-> Sigmoid(cls[c])]


\* ------------------------------------------------------------ the pipeline

\* Levels the loops visit: zip(pyramid_feats, self.non_shared_heads) stops
\* at the shorter list, and there is one head per entry of cfg['stride'].
ZipLen == Min(Len(fmp_sizes), Len(stride))

\* The state after construction, given an input image.  The finest map is
\* the stride-8 map of the backbone, so the image is 8 times its size.
Init ==
    /\ num_classes \in NumClassesSet
    /\ conf_thresh \in ConfThreshs
    /\ \E p \in TopkNmsPairs : topk = p[1] /\ nms_thresh = p[2]
    /\ no_decode \in BOOLEAN
    /\ stride \in StrideLists
    /\ fmp_sizes \in {[l \in 1..MaxLevels |-> IF l = 1 THEN sh ELSE <<1, 1>>] : sh \in Shapes}
    /\ fmp_sizes[1][1] * fmp_sizes[1][2] * num_classes <= MaxPairs
    /\ img_h = 8 * fmp_sizes[1][1]
    /\ img_w = 8 * fmp_sizes[1][2]
    /\ pc = "heads"
    /\ level = 0
    /\ all_obj_preds = <<>> /\ all_cls_preds = <<>>
    /\ all_reg_preds = <<>> /\ all_anchors = <<>>
    /\ all_idxs = <<>> /\ all_scores = <<>>
    /\ all_labels = <<>> /\ all_bboxes = <<>>
    /\ cat_scores = <<>> /\ cat_labels = <<>> /\ cat_bboxes = <<>>
    /\ scores = <<>> /\ labels = <<>> /\ bboxes = <<>>
    /\ out_bboxes = <<>>
    /\ outputs = <<>>

\* One iteration of the head loop of inference_single_image: the heads of
\* this level emit their tensors, flattened to [M, 1], [M, C], [M, 4]; the
\* anchors are generated unless no_decode (None, written <<>>).
HeadLevel ==
    /\ pc = "heads"
    /\ level < ZipLen
    /\ LET fmp_size == fmp_sizes[level + 1]
           M == fmp_size[1] * fmp_size[2]
       IN  \E t \in HeadOutputs(M, num_classes) :
               /\ all_obj_preds' = Append(all_obj_preds, t.obj)
               /\ all_cls_preds' = Append(all_cls_preds, t.cls)
               /\ all_reg_preds' = Append(all_reg_preds, t.reg)
               /\ all_anchors' = Append(all_anchors,
                                        IF no_decode THEN <<>>
                                        ELSE GenerateAnchors(level, fmp_size))
    /\ IF level + 1 < ZipLen
       THEN pc' = "heads" /\ level' = level + 1
       ELSE pc' = (IF no_decode THEN "no_decode" ELSE "post_process") /\ level' = 0
    /\ UNCHANGED <<config, input, levelOut, nmsIn, nmsOut, out_bboxes, outputs>>

\* The no_decode branch: the per-level tensors concatenated, sigmoid on
\* objectness and class scores, regression untouched.
NoDecode ==
    /\ pc = "no_decode"
    /\ LET obj_preds == Cat(all_obj_preds)
           cls_preds == Cat(all_cls_preds)
           reg_preds == Cat(all_reg_preds)
       IN  outputs' = [r \in 1..Len(reg_preds) |->
                          NoDecodeRow(reg_preds[r], obj_preds[r], cls_preds[r])]
    /\ pc' = "done"
    /\ UNCHANGED <<config, input, level, preds, levelOut, nmsIn, nmsOut, out_bboxes>>

\* One iteration of the level loop of post_process.
PostProcessLevel ==
    /\ pc = "post_process"
    /\ level < Len(all_obj_preds)
    /\ LET obj_pred_i == all_obj_preds[level + 1]
           cls_pred_i == all_cls_preds[level + 1]
           reg_pred_i == all_reg_preds[level + 1]
           anchors_i == all_anchors[level + 1]
           scores_i == FusedScores(obj_pred_i, cls_pred_i)
       IN  \E order \in SortOrders(scores_i, 0..(Len(scores_i) - 1)) :
               LET topk_idxs == KeptIdxs(scores_i, order, reg_pred_i)
                   n == Len(topk_idxs)
               IN  /\ all_idxs' = Append(all_idxs, topk_idxs)
                   /\ all_scores' = Append(all_scores,
                          [i \in 1..n |-> scores_i[topk_idxs[i] + 1]])
                   /\ all_labels' = Append(all_labels,
                          [i \in 1..n |-> Label(topk_idxs[i])])
                   /\ all_bboxes' = Append(all_bboxes,
                          [i \in 1..n |->
                              DecodeBox(anchors_i[AnchorIdx(topk_idxs[i]) + 1],
                                        reg_pred_i[AnchorIdx(topk_idxs[i]) + 1],
                                        stride[level + 1])])
    /\ IF level + 1 < Len(all_obj_preds)
       THEN pc' = "post_process" /\ level' = level + 1
       ELSE pc' = "nms" /\ level' = 0
    /\ UNCHANGED <<config, input, preds, nmsIn, nmsOut, out_bboxes, outputs>>

\* The tail of post_process: concatenate the levels, one multiclass NMS.
Nms ==
    /\ pc = "nms"
    /\ LET sc == Cat(all_scores)
           lb == Cat(all_labels)
           bx == Cat(all_bboxes)
           keep == MulticlassNms(sc, lb, bx, NmsArg, num_classes)
       IN  /\ cat_scores' = sc /\ cat_labels' = lb /\ cat_bboxes' = bx
           /\ scores' = [i \in 1..Len(keep) |-> sc[keep[i]]]
           /\ labels' = [i \in 1..Len(keep) |-> lb[keep[i]]]
           /\ bboxes' = [i \in 1..Len(keep) |-> bx[keep[i]]]
    /\ pc' = "normalize"
    /\ UNCHANGED <<config, input, level, preds, levelOut, out_bboxes, outputs>>

\* Back in inference_single_image: normalise and clip the boxes, return.
NormalizeBoxes ==
    /\ pc = "normalize"
    /\ out_bboxes' = [i \in 1..Len(bboxes) |->
                         [k \in 1..4 |-> Normalize(bboxes[i][k])]]
    /\ pc' = "done"
    /\ UNCHANGED <<config, input, level, preds, levelOut, nmsIn, nmsOut, outputs>>

Next == HeadLevel \/ NoDecode \/ PostProcessLevel \/ Nms \/ NormalizeBoxes

Spec == Init /\ [][Next]_vars


\* ------------------------------------------------------------------ claims

\* Fused scores of emitted level l (1-based), flat index f at position f + 1.
LevelScores(l) == FusedScores(all_obj_preds[l], all_cls_preds[l])

\* The flat indices level l contributed, as a set.
Selected(l) == {all_idxs[l][i] : i \in 1..Len(all_idxs[l])}

\* Pair f of scores sc is in every choice of the k highest-scoring pairs.
AmongTop(sc, f, k) ==
    Cardinality({g \in 0..(Len(sc) - 1) : g # f /\ sc[g + 1] >= sc[f + 1]}) < k

\* The decoding path has run to its return.
Decoded == pc = "done" /\ ~no_decode

\* The configuration is one the specification accepts: topK is not negative,
\* iouThresh lies in [0, 1], and there is one stride per pyramid level.
ValidConfig ==
    /\ topk >= 0
    /\ 0 <= nms_thresh /\ nms_thresh <= 100
    /\ Len(stride) = Len(fmp_sizes)

\* C1: every (cell, class) pair of a level that is among the
\* min(topK, H*W*C) highest-scoring pairs of the level and scores strictly
\* above confThresh is passed on to aggregation.
C1_TopPairsPassedOn ==
    ValidConfig =>
        \A l \in 1..Len(all_idxs) :
            LET sc == LevelScores(l)
            IN  \A f \in 0..(Len(sc) - 1) :
                    (AmongTop(sc, f, Min(topk, Len(sc))) /\ sc[f + 1] > conf_thresh)
                        => f \in Selected(l)

\* The numerators of returned box i (all four share one denominator).
OutBox(i) == [k \in 1..4 |-> out_bboxes[i][k].num]

\* C2 (as claimed): no two returned detections of one class have
\* IoU above iouThresh.
C2_ReturnedBoxesNms ==
    (Decoded /\ ValidConfig) =>
        \A i, j \in 1..Len(out_bboxes) :
            (i # j /\ labels[i] = labels[j])
                => ~IoUAbove(OutBox(i), OutBox(j), nms_thresh)

\* C2 (amended): no two detections of one class that the multiclass NMS
\* call retained have IoU above iouThresh, the IoU being that of their boxes
\* in pixel coordinates, before normalisation and clipping.
C2_NmsOutputInvariant ==
    pc \in {"normalize", "done"} =>
        \A i, j \in 1..Len(bboxes) :
            (i # j /\ labels[i] = labels[j])
                => ~IoUAbove(bboxes[i], bboxes[j], nms_thresh)

\* C2 witness: NMS suppressed a candidate and retained two of one class.
C2_Witness ==
    /\ Decoded
    /\ Len(scores) < Len(cat_scores)
    /\ \E i, j \in 1..Len(bboxes) : i # j /\ labels[i] = labels[j]

\* C3: every returned coordinate lies in [0, 1], every returned score in
\* (confThresh, 1], every returned classId in [0, numClasses).
C3_OutputBounds ==
    Decoded =>
        /\ Len(out_bboxes) = Len(scores) /\ Len(labels) = Len(scores)
        /\ \A i \in 1..Len(scores) :
            /\ \A k \in 1..4 : /\ out_bboxes[i][k].den > 0
                               /\ 0 <= out_bboxes[i][k].num
                               /\ out_bboxes[i][k].num <= out_bboxes[i][k].den
            /\ conf_thresh < scores[i] /\ scores[i] <= 100
            /\ 0 <= labels[i] /\ labels[i] < num_classes

\* C3 witness: a detection was returned with a coordinate that the clip
\* brought back to 1, while a pair scoring exactly confThresh was discarded.
C3_Witness ==
    /\ Decoded
    /\ \E i \in 1..Len(bboxes) : \E k \in 1..4 :
            bboxes[i][k] > 100 * Max(img_h, img_w) /\ out_bboxes[i][k].num = out_bboxes[i][k].den
    /\ \E l \in 1..Len(all_idxs) : \E f \in 0..(Len(LevelScores(l)) - 1) :
            LevelScores(l)[f + 1] = conf_thresh /\ f \notin Selected(l)

\* C4: the number of candidates a level contributes never exceeds topK, and
\* is at most min(topK, H*W*C) (stated of the levels that contribute any).
C4_TopKCap ==
    Len(stride) = Len(fmp_sizes) =>
        \A l \in 1..Len(all_idxs) :
            all_idxs[l] # <<>> =>
                /\ Len(all_idxs[l]) <= topk
                /\ Len(all_idxs[l]) <= Min(topk, Len(LevelScores(l)))

\* The rows of the no-decode output, level after level, cell after cell.
RawRows ==
    Cat([l \in 1..Len(all_reg_preds) |->
            [k \in 1..Len(all_reg_preds[l]) |->
                all_reg_preds[l][k]
                    \o <<Sigmoid(all_obj_preds[l][k])>>
                    \o [c \in 1..num_classes |-> Sigmoid(all_cls_preds[l][k][c])]]])

\* Cells of the first n emitted levels.
RECURSIVE CellCount(_)
CellCount(n) ==
    IF n = 0 THEN 0 ELSE fmp_sizes[n][1] * fmp_sizes[n][2] + CellCount(n - 1)

\* C5: with noDecode the run generates no grid, filters, decodes and
\* suppresses nothing, and returns one row per cell, levels in increasing
\* order, [raw regression, sigmoid(objectness), sigmoid(class scores)];
\* the flag alone decides: without it the run never returns such rows.
C5_NoDecode ==
    /\ (pc = "done" /\ no_decode) =>
        /\ outputs = RawRows
        /\ Len(outputs) = CellCount(Len(all_reg_preds))
        /\ \A l \in 1..Len(all_anchors) : all_anchors[l] = <<>>
        /\ all_idxs = <<>> /\ all_scores = <<>> /\ all_labels = <<>> /\ all_bboxes = <<>>
        /\ cat_scores = <<>> /\ scores = <<>> /\ out_bboxes = <<>>
    /\ (pc = "done" /\ ~no_decode) =>
        /\ outputs = <<>>
        /\ Len(all_idxs) = Len(all_reg_preds)
        /\ \A l \in 1..Len(all_anchors) : all_anchors[l] # <<>>

\* C5 witness: a no-decode run over two levels returned its rows, with a
\* topK and a confThresh under which decoding would have dropped pairs.
C5_Witness ==
    /\ pc = "done" /\ no_decode
    /\ Len(all_reg_preds) = 2 /\ Len(outputs) >= 3
    /\ topk = 1
    /\ \E l \in 1..2 : \E f \in 1..Len(LevelScores(l)) : LevelScores(l)[f] <= conf_thresh

\* The indices of scores sc sorted by score descending, ties by lower index.
RECURSIVE StableOrder(_, _)
StableOrder(sc, remaining) ==
    IF remaining = {} THEN <<>>
    ELSE LET best == CHOOSE f \in remaining :
                        \A g \in remaining :
                            sc[f + 1] > sc[g + 1] \/ (sc[f + 1] = sc[g + 1] /\ f <= g)
         IN  <<best>> \o StableOrder(sc, remaining \ {best})

\* C6: the selection of a level is the one a stable descending sort
\* yields (equal scores in flat-index order), so it is a function of the
\* inputs and a tie at the cut-off goes to the lower flat index.
C6_StableSelection ==
    ValidConfig =>
        \A l \in 1..Len(all_idxs) :
            LET sc == LevelScores(l)
            IN  all_idxs[l] =
                    KeptIdxs(sc, StableOrder(sc, 0..(Len(sc) - 1)), all_reg_preds[l])

\* No pair of any emitted level scores strictly above confThresh.
NoneAbove ==
    \A l \in 1..Len(all_obj_preds) :
        \A f \in 1..Len(LevelScores(l)) : LevelScores(l)[f] <= conf_thresh

\* C7: when no pair of any level scores above confThresh, every level
\* contributes nothing, the aggregate is empty, and the run goes on to
\* return an empty detection list.
C7_EmptyResult ==
    (pc \in {"post_process", "nms", "normalize", "done"} /\ NoneAbove) =>
        /\ \A l \in 1..Len(all_scores) :
                all_scores[l] = <<>> /\ all_labels[l] = <<>> /\ all_bboxes[l] = <<>>
        /\ cat_scores = <<>> /\ cat_labels = <<>> /\ cat_bboxes = <<>>
        /\ scores = <<>> /\ labels = <<>> /\ bboxes = <<>> /\ out_bboxes = <<>>
        /\ pc # "done" => ENABLED Next

\* C7 witness: a two-level decoding run with no pair above confThresh
\* returned, and what it returned is empty.
C7_Witness ==
    /\ Decoded /\ NoneAbove
    /\ Len(all_scores) = 2
    /\ out_bboxes = <<>> /\ scores = <<>>

\* C8: with a negative topK or an iouThresh outside [0, 1] a decoding run
\* never returns.
C8_InvalidConfigNeverReturns ==
    (Len(stride) = Len(fmp_sizes) /\ (topk < 0 \/ nms_thresh < 0 \/ nms_thresh > 100))
        => ~Decoded

\* C9: when the number of pyramid levels differs from the number of
\* declared strides the run never returns an output.
C9_MismatchNeverReturns ==
    (topk >= 0 /\ 0 <= nms_thresh /\ nms_thresh <= 100 /\ Len(stride) # Len(fmp_sizes))
        => pc # "done"

\* Candidates contributed by the first n levels.
RECURSIVE KeptBefore(_)
KeptBefore(n) == IF n = 0 THEN 0 ELSE Len(all_idxs[n]) + KeptBefore(n - 1)

\* C10: grid point k of a level is ((k mod W) + 0.5, (k div W) + 0.5) *
\* stride; a surviving flat index f has class f mod C and the box decoded
\* from the regression and grid point of cell f div C; and position i of the
\* three lists handed to NMS is one and the same candidate, levels in order.
C10_PositionalPairing ==
    /\ ~no_decode =>
        \A l \in 1..Len(all_anchors) :
            LET H == fmp_sizes[l][1]
                W == fmp_sizes[l][2]
            IN  /\ Len(all_anchors[l]) = H * W
                /\ \A k \in 0..(H * W - 1) :
                       all_anchors[l][k + 1] =
                           <<(100 * (k % W) + 50) * stride[l],
                             (100 * (k \div W) + 50) * stride[l]>>
    /\ \A l \in 1..Len(all_idxs) :
        /\ Len(all_scores[l]) = Len(all_idxs[l])
        /\ Len(all_labels[l]) = Len(all_idxs[l])
        /\ Len(all_bboxes[l]) = Len(all_idxs[l])
        /\ \A i \in 1..Len(all_idxs[l]) :
            LET f == all_idxs[l][i]
                cell == f \div num_classes
                W == fmp_sizes[l][2]
                s == stride[l]
                t == all_reg_preds[l][cell + 1]
                cx == (100 * (cell % W) + 50) * s + 100 * t[1] * s
                cy == (100 * (cell \div W) + 50) * s + 100 * t[2] * s
                hw == (Exp(t[3]) * s) \div 2
                hh == (Exp(t[4]) * s) \div 2
            IN  /\ all_scores[l][i] = LevelScores(l)[f + 1]
                /\ all_labels[l][i] = f % num_classes
                /\ all_bboxes[l][i] = <<cx - hw, cy - hh, cx + hw, cy + hh>>
    /\ pc \in {"normalize", "done"} =>
        /\ Len(cat_scores) = KeptBefore(Len(all_idxs))
        /\ Len(cat_labels) = Len(cat_scores)
        /\ Len(cat_bboxes) = Len(cat_scores)
        /\ \A l \in 1..Len(all_idxs) : \A i \in 1..Len(all_idxs[l]) :
            /\ cat_scores[KeptBefore(l - 1) + i] = all_scores[l][i]
            /\ cat_labels[KeptBefore(l - 1) + i] = all_labels[l][i]
            /\ cat_bboxes[KeptBefore(l - 1) + i] = all_bboxes[l][i]

\* C10 witness: a run handed NMS candidates of two levels, among them one
\* of a cell in the second row of a 2 x 2 map.
C10_Witness ==
    /\ pc = "normalize"
    /\ Len(all_idxs) = 2 /\ all_idxs[1] # <<>> /\ all_idxs[2] # <<>>
    /\ fmp_sizes[1] = <<2, 2>>
    /\ \E i \in 1..Len(all_idxs[1]) : all_idxs[1][i] \div num_classes >= 2

====
